---- MODULE Spec2Model ----
(***************************************************************************)
(* A model of scripts/generate-proof.py: the proof file generator that     *)
(* reads the quality-gate artifacts under .gate-outputs/, extracts the     *)
(* metrics with regular expressions and fills STAGE_PROOF_TEMPLATE.md.     *)
(*                                                                         *)
(* Text is a sequence of tokens.  A token is one character (a digit, ".",  *)
(* "%", "|", a blank, a line end, a letter that takes part in no pattern)  *)
(* or one of the literal words the patterns look for ("Passed:",           *)
(* "Line coverage:", "[X]", ...).  Every regular expression is modelled by *)
(* the leftmost match re.search finds on such a sequence, re.sub by the    *)
(* matches it replaces from left to right.  A number the code keeps as a   *)
(* string is a sequence of digit tokens.                                   *)
(***************************************************************************)
EXTENDS Integers, Sequences, FiniteSets, TLC

VARIABLES
    argv,          \* sys.argv[1:], each argument a sequence of characters
    fs,            \* the working directory: which files exist
    files,         \* the text of the four gate artifacts and of the template
    stage_number,  \* ProofGenerator.stage_number
    tech_stack,    \* ProofGenerator.tech_stack
    pc,            \* the position of the process
    exit_code,     \* the status the process ends with (-1 while it runs)
    output_file,   \* STAGE_<n>_PROOF.md: absent, partial or written, and its text
    calls,         \* the methods of ProofGenerator entered so far
    io_fault,      \* what the file system does to the write of the output
    ret,           \* the value the last call returned
    template,      \* the local variable template of generate_proof_file
    reported       \* the placeholders verify_proof_file has printed

vars == <<argv, fs, files, stage_number, tech_stack, pc, exit_code,
          output_file, calls, io_fault, ret, template, reported>>

-----------------------------------------------------------------------------
(* Bounds of the model.                                                    *)

MaxPieces == 3     \* a test artifact is at most this many phrases long
MaxStage == 9      \* stage numbers run up to MaxStage
MaxArgs == 3       \* command lines have at most this many arguments

NegStages == 2     \* stage numbers start at -NegStages
MaxTplPieces == 3  \* a template is at most this many passages long
MaxCovPieces == 2  \* a coverage artifact is at most this many phrases long

-----------------------------------------------------------------------------
(* Characters and strings.                                                 *)

Digits == {"0", "1", "2", "3", "4", "5", "6", "7", "8", "9"}
DigitVal == [d \in Digits |->
    CASE d = "0" -> 0 [] d = "1" -> 1 [] d = "2" -> 2 [] d = "3" -> 3
      [] d = "4" -> 4 [] d = "5" -> 5 [] d = "6" -> 6 [] d = "7" -> 7
      [] d = "8" -> 8 [] d = "9" -> 9]

\* \s of the re module: the blank and the newline are the two the model has
WS == {" ", "\n"}

\* the tech stacks ProofGenerator knows, as the strings main compares
Dotnet == <<"d", "o", "t", "n", "e", "t">>
Typescript == <<"t", "y", "p", "e", "s", "c", "r", "i", "p", "t">>

\* int(s) for a string of ASCII digits
RECURSIVE IntOf(_)
IntOf(s) ==
    IF s = <<>> THEN 0
    ELSE 10 * IntOf(SubSeq(s, 1, Len(s) - 1)) + DigitVal[s[Len(s)]]

\* the concatenation of a sequence of sequences
RECURSIVE Flatten(_)
Flatten(ss) == IF ss = <<>> THEN <<>> ELSE Head(ss) \o Flatten(Tail(ss))

\* sequences over S of length at most n
SeqUpTo(S, n) == UNION {[1..k -> S] : k \in 0..n}

-----------------------------------------------------------------------------
(* The pieces of the regular expressions.                                  *)

\* the length of the longest run of tokens of class C that starts at s[i]
RECURSIVE RunLen(_, _, _)
RunLen(s, i, C) ==
    IF i > Len(s) \/ s[i] \notin C THEN 0 ELSE 1 + RunLen(s, i + 1, C)

NoMatch == [found |-> FALSE, at |-> 0, text |-> <<>>]

\* "<word>\s+(C+)" tried with <word> at s[i]: the group's text and position
WordGroupAt(s, i, word, C) ==
    LET w == RunLen(s, i + 1, WS)
        g == RunLen(s, i + 1 + w, C)
    IN  IF i \in 1..Len(s) /\ s[i] = word /\ w >= 1 /\ g >= 1
        THEN [found |-> TRUE, at |-> i + 1 + w,
              text |-> SubSeq(s, i + 1 + w, i + w + g)]
        ELSE NoMatch

\* re.search(r'<word>\s+(\d+)', s): the leftmost match
SearchWordNumber(s, word) ==
    LET hits == {i \in 1..Len(s) : WordGroupAt(s, i, word, Digits).found}
    IN  IF hits = {} THEN NoMatch
        ELSE WordGroupAt(s, CHOOSE i \in hits : \A j \in hits : i <= j,
                         word, Digits)

\* r'Tests:\s+(\d+)\s+passed,\s+(\d+)\s+total' tried with "Tests:" at s[i]
TestsLineAt(s, i) ==
    LET g1 == WordGroupAt(s, i, "Tests:", Digits)
        a  == g1.at + Len(g1.text)             \* first token after group 1
        w2 == RunLen(s, a, WS)
        g2 == WordGroupAt(s, a + w2, "passed,", Digits)
        b  == g2.at + Len(g2.text)             \* first token after group 2
        w4 == RunLen(s, b, WS)
    IN  IF /\ g1.found
           /\ w2 >= 1
           /\ a + w2 <= Len(s)
           /\ g2.found
           /\ w4 >= 1
           /\ b + w4 <= Len(s)
           /\ s[b + w4] = "total"
        THEN [found |-> TRUE, at1 |-> g1.at, passed |-> g1.text,
              at2 |-> g2.at, total |-> g2.text]
        ELSE [found |-> FALSE, at1 |-> 0, passed |-> <<>>,
              at2 |-> 0, total |-> <<>>]

SearchTestsLine(s) ==
    LET hits == {i \in 1..Len(s) : TestsLineAt(s, i).found}
    IN  IF hits = {} THEN TestsLineAt(s, 0)
        ELSE TestsLineAt(s, CHOOSE i \in hits : \A j \in hits : i <= j)

-----------------------------------------------------------------------------
(* ProofGenerator: the metric extractors.                                  *)

None == [kind |-> "none"]

\* Path.exists() of a gate artifact under .gate-outputs/
GateFileExists(name) == fs.dir /\ name \in fs.gates

\* The status cells: the source's strings are these after a check or cross mark.
PASS == "PASS"
FAIL == "FAIL"

\* ExtractTestsDotnet with the Failed count required as well
ExtractTestsDotnet_NeedsFailed(content) ==
    LET match == SearchWordNumber(content, "Passed:")
        total_match == SearchWordNumber(content, "Total:")
        failed_match == SearchWordNumber(content, "Failed:")
    IN  IF match.found /\ total_match.found /\ failed_match.found
        THEN [kind |-> "tests", passed |-> match.text,
              total |-> total_match.text, failed |-> failed_match.text,
              status |-> IF failed_match.text = <<"0">> THEN PASS ELSE FAIL]
        ELSE None

\* the dotnet branch of extract_test_results
ExtractTestsDotnet(content) ==
    LET match == SearchWordNumber(content, "Passed:")
        total_match == SearchWordNumber(content, "Total:")
        failed_match == SearchWordNumber(content, "Failed:")
    IN  IF match.found /\ total_match.found
        THEN LET failed == IF failed_match.found THEN failed_match.text
                           ELSE <<"0">>
             IN  [kind |-> "tests", passed |-> match.text,
                  total |-> total_match.text, failed |-> failed,
                  status |-> IF failed = <<"0">> THEN PASS ELSE FAIL]
        ELSE None

\* the TypeScript/Node.js branch of extract_test_results
ExtractTestsTypescript(content) ==
    LET match == SearchTestsLine(content)
    IN  IF match.found
        THEN [kind |-> "tests", passed |-> match.passed,
              total |-> match.total, failed |-> <<"0">>, status |-> PASS]
        ELSE None

extract_test_results ==
    IF ~GateFileExists("gate-5-tests.txt") THEN None
    ELSE IF tech_stack = Dotnet THEN ExtractTestsDotnet(files.tests)
    ELSE ExtractTestsTypescript(files.tests)

\* a str value a method returns
Str(text) == [kind |-> "str", text |-> text]

\* [\d.] of the coverage patterns
DigitsDot == Digits \cup {"."}

\* r'Line coverage:\s+([\d.]+)%' tried with "Line coverage:" at s[i]
LineCoverageAt(s, i) ==
    LET g == WordGroupAt(s, i, "Line coverage:", DigitsDot)
        e == g.at + Len(g.text)                \* first token after the group
    IN  IF g.found /\ e <= Len(s) /\ s[e] = "%" THEN g ELSE NoMatch

SearchLineCoverage(s) ==
    LET hits == {i \in 1..Len(s) : LineCoverageAt(s, i).found}
    IN  IF hits = {} THEN NoMatch
        ELSE LineCoverageAt(s, CHOOSE i \in hits : \A j \in hits : i <= j)

\* r'All files.*?\|\s+([\d.]+)' with "All files" at s[i] and the "|" at s[j]:
\* "." matches no newline, so none lies between the two
AllFilesAt(s, i, j) ==
    IF /\ i \in 1..Len(s)
       /\ j \in (i + 1)..Len(s)
       /\ s[i] = "All files"
       /\ \A k \in (i + 1)..(j - 1) : s[k] # "\n"
    THEN WordGroupAt(s, j, "|", DigitsDot)
    ELSE NoMatch

\* the leftmost "All files", and for it the nearest "|" (.*? is lazy)
SearchAllFiles(s) ==
    LET hits == {i \in 1..Len(s) :
                    \E j \in 1..Len(s) : AllFilesAt(s, i, j).found}
    IN  IF hits = {} THEN NoMatch
        ELSE LET i == CHOOSE h \in hits : \A h2 \in hits : h <= h2
                 bars == {j \in 1..Len(s) : AllFilesAt(s, i, j).found}
             IN  AllFilesAt(s, i, CHOOSE j \in bars : \A j2 \in bars : j <= j2)

extract_coverage ==
    IF ~GateFileExists("gate-6-coverage.txt") THEN None
    ELSE LET match == SearchLineCoverage(files.coverage)
             alt == SearchAllFiles(files.coverage)
         IN  IF match.found THEN Str(match.text)
             ELSE IF alt.found THEN Str(alt.text)
             ELSE None

\* str.lower() of a word token
Lower(t) ==
    CASE t \in {"Error", "ERROR"} -> "error"
      [] t = "No vulnerable packages" -> "no vulnerable packages"
      [] t = "Vulnerabilities" -> "vulnerabilities"
      [] t \in {"High", "HIGH"} -> "high"
      [] t \in {"Moderate", "MODERATE"} -> "moderate"
      [] t \in {"Critical", "CRITICAL"} -> "critical"
      [] OTHER -> t
LowerText(s) == [i \in 1..Len(s) |-> Lower(s[i])]

\* needle in hay
Contains(hay, needle) ==
    \E i \in 1..(Len(hay) - Len(needle) + 1) :
        SubSeq(hay, i, i + Len(needle) - 1) = needle

\* re.search(r'(\d+) <words>', s), the words one after another: the
\* leftmost match
SearchNumberWords(s, words) ==
    LET ok(p) == LET g == RunLen(s, p, Digits)
                 IN  /\ g >= 1
                     /\ p + g + Len(words) <= Len(s)
                     /\ s[p + g] = " "
                     /\ SubSeq(s, p + g + 1, p + g + Len(words)) = words
        hits == {p \in 1..Len(s) : ok(p)}
    IN  IF hits = {} THEN NoMatch
        ELSE LET p == CHOOSE h \in hits : \A h2 \in hits : h <= h2
             IN  [found |-> TRUE, at |-> p,
                  text |-> SubSeq(s, p, p + RunLen(s, p, Digits) - 1)]

\* the dotnet branch of extract_build_info; "Error(s)" is the two tokens
\* "Error" and "(s)"
ExtractBuildDotnet(content) ==
    LET warnings_match == SearchNumberWords(content, <<"Warning(s)">>)
        errors_match == SearchNumberWords(content, <<"Error", "(s)">>)
    IN  IF warnings_match.found /\ errors_match.found
        THEN [kind |-> "build", has_warnings |-> TRUE,
              warnings |-> warnings_match.text,
              errors |-> errors_match.text,
              status |-> IF warnings_match.text = <<"0">> THEN PASS ELSE FAIL]
        ELSE None

\* the TypeScript branch of extract_build_info: "error" is a token of its
\* own in whatever case, "errors" the two tokens "error" and "s"
ExtractBuildTypescript(content) ==
    LET low == LowerText(content)
    IN  [kind |-> "build", has_warnings |-> FALSE, warnings |-> <<>>,
         errors |-> <<>>,
         status |-> IF Contains(low, <<"error">>)
                       /\ ~Contains(low, <<"0", " ", "error", "s">>)
                    THEN FAIL ELSE PASS]

extract_build_info ==
    IF ~GateFileExists("gate-3-build.txt") THEN None
    ELSE IF tech_stack = Dotnet THEN ExtractBuildDotnet(files.build)
    ELSE ExtractBuildTypescript(files.build)

\* str(n) for n >= 0
RECURSIVE StrOfNat(_)
StrOfNat(n) ==
    LET d == CHOOSE c \in Digits : DigitVal[c] = n % 10
    IN  IF n < 10 THEN <<d>> ELSE StrOfNat(n \div 10) \o <<d>>

\* len(re.findall(r'(HIGH|MODERATE|CRITICAL)', content, re.IGNORECASE))
CountSeverities(content) ==
    Cardinality({i \in 1..Len(content) :
                    Lower(content[i]) \in {"high", "moderate", "critical"}})

extract_vulnerabilities ==
    IF ~GateFileExists("gate-7-security.txt") THEN None
    ELSE IF \/ Contains(LowerText(files.security), <<"no vulnerable packages">>)
            \/ Contains(files.security, <<"0", " ", "vulnerabilities">>)
         THEN Str(<<"0">>)
         ELSE Str(StrOfNat(CountSeverities(files.security)))

-----------------------------------------------------------------------------
(* ProofGenerator.generate_stage_summary.                                  *)

\* float(s) of a string of digits and dots, as the decimal it denotes: the
\* digits before and after the dot.  The string is a number when it has a
\* digit and at most one dot; float raises ValueError when it is not.
FloatOf(s) ==
    LET dots == {i \in 1..Len(s) : s[i] = "."}
        dot  == IF dots = {} THEN Len(s) + 1
                ELSE CHOOSE i \in dots : \A j \in dots : i <= j
    IN  [ok |-> Cardinality(dots) <= 1 /\ Len(s) > Cardinality(dots),
         int |-> SubSeq(s, 1, dot - 1),
         frac |-> SubSeq(s, dot + 1, Len(s))]

\* 0.a >= 0.b for two strings of digits
RECURSIVE FracGE(_, _)
FracGE(a, b) ==
    IF b = <<>> THEN TRUE
    ELSE IF a = <<>> THEN \A i \in 1..Len(b) : b[i] = "0"
    ELSE IF DigitVal[Head(a)] # DigitVal[Head(b)]
         THEN DigitVal[Head(a)] > DigitVal[Head(b)]
    ELSE FracGE(Tail(a), Tail(b))

\* float rounds a decimal to the nearest double, ties to even.  The doubles
\* next to 90 from below are 2^-46 apart, so the decimals that round to
\* 90.0 or more are those >= 90 - 2^-47 =
\* 89.99999999999999289457264239899814128875732421875
RoundsUpFrac ==
    <<"9", "9", "9", "9", "9", "9", "9", "9", "9", "9", "9", "9", "9", "9",
      "2", "8", "9", "4", "5", "7", "2", "6", "4", "2", "3", "9", "8", "9",
      "9", "8", "1", "4", "1", "2", "8", "8", "7", "5", "7", "3", "2", "4",
      "2", "1", "8", "7", "5">>

\* truth value of an Optional str or dict
Truthy(v) == v.kind # "none" /\ (v.kind = "str" => v.text # <<>>)

ValueError == [kind |-> "ValueError"]

\* the coverage threshold of the summary table
CoverageTarget == 90

\* float(coverage) >= 90
CoverageMeetsTarget(coverage) ==
    LET f == FloatOf(coverage.text)
    IN  \/ IntOf(f.int) >= CoverageTarget
        \/ IntOf(f.int) = CoverageTarget - 1 /\ FracGE(f.frac, RoundsUpFrac)

\* the cell of the Code Coverage row's Status column
CoverageStatus(coverage) ==
    IF Truthy(coverage) /\ CoverageMeetsTarget(coverage) THEN <<PASS>>
    ELSE IF Truthy(coverage) THEN <<FAIL>>
    ELSE <<"[STATUS]">>

\* lines 205-223 of generate_stage_summary: the table of the four metrics;
\* float(coverage) raises ValueError when coverage is no number
SummaryTable(tests, coverage, build, vulnerabilities) ==
        IF Truthy(coverage) /\ ~FloatOf(coverage.text).ok THEN ValueError
        ELSE
        [kind |-> "table",
         test_str |-> IF Truthy(tests)
                      THEN tests.passed \o <<"/">> \o tests.total
                      ELSE <<"[N/N]">>,
         test_status |-> IF Truthy(tests) THEN <<tests.status>>
                         ELSE <<"[STATUS]">>,
         failures |-> IF Truthy(tests) THEN tests.failed ELSE <<"0">>,
         coverage_str |-> IF Truthy(coverage) THEN coverage.text \o <<"%">>
                          ELSE <<"[XX%]">>,
         coverage_status |-> CoverageStatus(coverage),
         warnings |-> IF Truthy(build) /\ build.has_warnings
                      THEN build.warnings ELSE <<"0">>,
         build_str |-> IF Truthy(build) THEN <<build.status>>
                       ELSE <<"[STATUS]">>,
         vuln_str |-> IF Truthy(vulnerabilities) THEN vulnerabilities.text
                      ELSE <<"[N]">>,
         vuln_status |-> IF Truthy(vulnerabilities)
                            /\ vulnerabilities.text = <<"0">> THEN <<PASS>>
                         ELSE IF Truthy(vulnerabilities) THEN <<FAIL>>
                         ELSE <<"[STATUS]">>,
         \* the last cell is the source's "[✅/❌]"
         deliverables |-> <<"[N/N]", "[N/N]", "[PASS/FAIL]">>]

generate_stage_summary ==
    SummaryTable(extract_test_results, extract_coverage, extract_build_info,
                 extract_vulnerabilities)

-----------------------------------------------------------------------------
(* ProofGenerator: the review section.                                     *)

\* StageGuidance with the first boundary off by one (< 4 for <= 4)
StageGuidance_OffByOne(n) ==
    IF n < 4 THEN "foundation"
    ELSE IF n <= 7 THEN "execution"
    ELSE "hardening"

\* _get_stage_specific_guidance: the prose returned, named by its tier
\* ("default" is the fallback after the if/elif/else)
StageGuidance(n) ==
    IF n <= 4 THEN "foundation"
    ELSE IF n <= 7 THEN "execution"
    ELSE "hardening"

_get_stage_specific_guidance ==
    [kind |-> "guidance", tier |-> StageGuidance(stage_number)]

\* ReviewSection with the target to be exceeded strictly (> 90 for >= 90)
ReviewSection_StrictTarget(tests, coverage) ==
    IF Truthy(coverage) /\ ~FloatOf(coverage.text).ok THEN ValueError
    ELSE [kind |-> "review",
          test_count |-> IF Truthy(tests) THEN tests.total ELSE <<"?">>,
          coverage_pct |-> IF Truthy(coverage) THEN coverage.text \o <<"%">>
                           ELSE <<"?%">>,
          verdict |-> IF /\ Truthy(coverage)
                         /\ CoverageMeetsTarget(coverage)
                         /\ coverage.text \notin {<<"9", "0">>,
                                                  <<"9", "0", ".", "0">>}
                      THEN "Exceeds 90% target" ELSE "Below 90% target",
          guidance |-> StageGuidance(stage_number),
          next_stage |-> stage_number + 1]

\* generate_engineer_review_prompts: what the section is filled with
ReviewSection(tests, coverage) ==
    IF Truthy(coverage) /\ ~FloatOf(coverage.text).ok THEN ValueError
    ELSE [kind |-> "review",
          test_count |-> IF Truthy(tests) THEN tests.total ELSE <<"?">>,
          coverage_pct |-> IF Truthy(coverage) THEN coverage.text \o <<"%">>
                           ELSE <<"?%">>,
          verdict |-> IF Truthy(coverage) /\ CoverageMeetsTarget(coverage)
                      THEN "Exceeds 90% target" ELSE "Below 90% target",
          guidance |-> StageGuidance(stage_number),
          next_stage |-> stage_number + 1]

generate_engineer_review_prompts ==
    ReviewSection(extract_test_results, extract_coverage)

-----------------------------------------------------------------------------
(* ProofGenerator.generate_proof_file: the text of the document.  The      *)
(* tokens of a template are its placeholders, the words the two region     *)
(* patterns look for ("|", "Metric", "Deliverables", the two headers),     *)
(* blanks, line ends and other text.                                       *)

Min(S) == CHOOSE x \in S : \A y \in S : x <= y

\* the headers "## <emoji> Principal Engineer Review" and
\* "## <emoji> Integration Status"
ReviewHeader == "## Principal Engineer Review"
Sentinel == "## Integration Status"

\* Path.read_text(): the file is opened in text mode with universal
\* newlines, so "\r\n" and "\r" are read as "\n"
read_text(content) ==
    [i \in 1..Len(content) |->
        IF content[i] \in {"\r\n", "\r"} THEN "\n" ELSE content[i]]

\* str.upper() of a tech stack
UpperChar(c) ==
    CASE c = "d" -> "D" [] c = "o" -> "O" [] c = "t" -> "T" [] c = "n" -> "N"
      [] c = "e" -> "E" [] c = "y" -> "Y" [] c = "p" -> "P" [] c = "s" -> "S"
      [] c = "c" -> "C" [] c = "r" -> "R" [] c = "i" -> "I" [] OTHER -> c
UpperStr(a) == [i \in 1..Len(a) |-> UpperChar(a[i])]

\* datetime.now().strftime("%Y-%m-%d"): ten characters, digits and "-"
Today == <<"2", "0", "2", "5", "-", "0", "1", "-", "3", "1">>

\* the dict replacements, in its order (lines 388-393)
Replacements ==
    <<[old |-> "[X]", new |-> StrOfNat(stage_number)],
      [old |-> "[YYYY-MM-DD]", new |-> Today],
      [old |-> "[Stage Name]", new |-> <<"Stage", " ">> \o StrOfNat(stage_number)],
      [old |-> ".NET / TypeScript / Both", new |-> UpperStr(tech_stack)]>>

\* s.replace(old, new) for a placeholder old
Replace(s, old, new) ==
    Flatten([i \in 1..Len(s) |-> IF s[i] = old THEN new ELSE <<s[i]>>])

\* the loop of lines 396-397 from the k-th replacement on
RECURSIVE ApplyReplacements(_, _, _)
ApplyReplacements(s, reps, k) ==
    IF k > Len(reps) THEN s
    ELSE ApplyReplacements(Replace(s, reps[k].old, reps[k].new), reps, k + 1)

\* \|\s*<label>\s*\| matched at s[i]: the position after the match, 0 when
\* there is none
CellEnd(s, i, label) ==
    IF i \notin 1..Len(s) THEN 0
    ELSE IF s[i] # "|" THEN 0
    ELSE LET a == i + 1 + RunLen(s, i + 1, WS)
             b == a + 1 + RunLen(s, a + 1, WS)
         IN  IF b <= Len(s) /\ s[a] = label /\ s[b] = "|" THEN b + 1 ELSE 0

\* \|\s*Metric\s*\|.*?\|\s*Deliverables\s*\|.*?\n with DOTALL matched at
\* s[i]: the position of the newline that ends the match, 0 when there is
\* none.  Both .*? are lazy: the match runs to the first Deliverables cell
\* after the header cell and from there to the first newline.
SummaryEnd(s, i) ==
    LET h == CellEnd(s, i, "Metric")
        rows == {q \in h..Len(s) :
                    /\ CellEnd(s, q, "Deliverables") # 0
                    /\ \E n \in CellEnd(s, q, "Deliverables")..Len(s) :
                          s[n] = "\n"}
    IN  IF h = 0 THEN 0
        ELSE IF rows = {} THEN 0
        ELSE Min({n \in CellEnd(s, Min(rows), "Deliverables")..Len(s) :
                     s[n] = "\n"})

\* re.sub of the summary pattern by repl in s from position p on: every
\* match, left to right, none overlapping (lines 402-407)
RECURSIVE SubSummary(_, _, _)
SubSummary(s, p, repl) ==
    LET starts == {i \in p..Len(s) : SummaryEnd(s, i) # 0}
    IN  IF starts = {} THEN SubSeq(s, p, Len(s))
        ELSE SubSeq(s, p, Min(starts) - 1) \o repl
             \o SubSummary(s, SummaryEnd(s, Min(starts)) + 1, repl)

\* re.sub of <ReviewHeader>.*?(?=<Sentinel>) with DOTALL by repl in s from
\* position p on: the lookahead leaves the sentinel in place (lines 412-417)
RECURSIVE SubReview(_, _, _)
SubReview(s, p, repl) ==
    LET starts == {i \in p..Len(s) :
                      /\ s[i] = ReviewHeader
                      /\ \E j \in (i + 1)..Len(s) : s[j] = Sentinel}
    IN  IF starts = {} THEN SubSeq(s, p, Len(s))
        ELSE SubSeq(s, p, Min(starts) - 1) \o repl
             \o SubReview(s, Min({j \in (Min(starts) + 1)..Len(s) :
                                     s[j] = Sentinel}), repl)

\* a row of the table: | cell | cell | ... |
RECURSIVE Row(_)
Row(cells) ==
    IF cells = <<>> THEN <<"|">>
    ELSE <<"|", " ">> \o Head(cells) \o <<" ">> \o Row(Tail(cells))

\* the f-string of lines 216-223 for a table t
SummaryText(t) ==
    Row(<<<<"Metric">>, <<"Target">>, <<"Actual">>, <<"Status">>>>)
    \o <<"\n", "|", "--------", "|", "--------", "|", "--------", "|",
         "--------", "|", "\n">>
    \o Row(<<<<"Tests Passing">>, <<"100%">>, t.test_str, t.test_status>>)
    \o <<"\n">>
    \o Row(<<<<"Test Failures">>, <<"0">>, t.failures, t.test_status>>)
    \o <<"\n">>
    \o Row(<<<<"Code Coverage">>, <<">=90%">>, t.coverage_str,
             t.coverage_status>>)
    \o <<"\n">>
    \o Row(<<<<"Build Warnings">>, <<"0">>, t.warnings, t.build_str>>)
    \o <<"\n">>
    \o Row(<<<<"Vulnerabilities">>, <<"0">>, t.vuln_str, t.vuln_status>>)
    \o <<"\n">>
    \o Row(<<<<"Deliverables">>, <<t.deliverables[1]>>, <<t.deliverables[2]>>,
             <<t.deliverables[3]>>>>)

\* the f-string of lines 277-323 for a review r: the prose between the
\* values is one token a paragraph
ReviewText(r) ==
    <<ReviewHeader, "\n", "\n", "### What's Going Well", "\n", "\n",
      "- **Test Coverage**: ">> \o r.test_count \o <<" tests, ">>
    \o r.coverage_pct \o <<" coverage ", r.verdict, "\n",
      "- **Architecture**: ",
      "[Review separation of concerns, SOLID principles, extensibility]",
      "\n", "**Strengths identified:**", "\n",
      "[Specific observation about what's working well]", "\n", "\n",
      "### Potential Risks & Concerns", "\n", "\n", r.guidance, "\n", "\n",
      "### Pre-Next-Stage Considerations", "\n", "\n",
      "**Before proceeding to ", "Stage", " ">> \o StrOfNat(r.next_stage)
    \o <<", consider:**", "\n", "\n", r.guidance, "\n", "\n",
      "**Recommendation:** ",
      "[PROCEED / PROCEED WITH CAUTION / REVISIT BEFORE NEXT STAGE]",
      "\n", "\n", "> PROCEED - ... during ", "Stage", " ">>
    \o StrOfNat(r.next_stage) \o <<" implementation.", "\n">>

\* lines 396-397: template after the simple replacements
ReplaceLiterals(content) == ApplyReplacements(content, Replacements, 1)

\* lines 402-407: template after the summary table is inserted
InsertSummaryTable(text, summary) ==
    SubSummary(text, 1, SummaryText(summary) \o <<"\n">>)

\* lines 412-417: template after the review section is inserted
InsertEngineerReview(text, review) ==
    SubReview(text, 1, ReviewText(review) \o <<"\n", "---", "\n", "\n">>)

\* the placeholders the pattern of line 432 finds
VerifiedPlaceholders ==
    {"[TO BE]", "[PLACEHOLDER]", "[TBD]", "[TODO]", "[PENDING]", "[STATUS]",
     "[XXX]", "[N/N]", "[X%]"}

\* re.findall of line 432 on content: the positions of the matches
FindPlaceholders(content) ==
    {i \in 1..Len(content) : content[i] \in VerifiedPlaceholders}

NotReported == [printed |-> FALSE, count |-> 0, names |-> {}]

-----------------------------------------------------------------------------
(* ProofGenerator.run.                                                     *)

\* check_requirements without the check of the template
check_requirements_NoTemplateCheck ==
    IF ~fs.dir THEN FALSE
    ELSE IF fs.gates = {} THEN FALSE
    ELSE TRUE

\* check_requirements: the directory, the template and a gate-*.txt file
check_requirements ==
    IF ~fs.dir THEN FALSE
    ELSE IF ~fs.template THEN FALSE
    ELSE IF fs.gates = {} THEN FALSE
    ELSE TRUE

NoFile == [state |-> "absent", doc |-> None]

\* an exception no frame catches: the interpreter prints the traceback and
\* the process ends with status 1
Uncaught(exception) ==
    /\ ret' = [kind |-> exception]
    /\ exit_code' = 1
    /\ pc' = "done"

\* run, lines 469-470
CheckRequirements ==
    /\ pc = "run"
    /\ calls' = calls \cup {"check_requirements"}
    /\ IF check_requirements
       THEN pc' = "generate" /\ UNCHANGED exit_code
       ELSE pc' = "done" /\ exit_code' = 2
    /\ UNCHANGED <<argv, fs, files, template, reported, stage_number, tech_stack, output_file,
                   io_fault, ret>>

\* generate_proof_file once the document is composed: write_text opens the
\* output (creating or truncating it), writes and closes; the file system
\* may refuse the open or fail the write
WriteOutput(summary, review, text) ==
    \E fault \in {"none", "open", "write"} :
        /\ io_fault' = fault
        /\ CASE fault = "none" ->
                  /\ output_file' = [state |-> "written",
                                     doc |-> [kind |-> "doc",
                                              summary |-> summary,
                                              review |-> review,
                                              text |-> text]]
                  /\ ret' = [kind |-> "True"]
                  /\ pc' = "verify"
                  /\ UNCHANGED exit_code
             [] fault = "open" ->
                  /\ UNCHANGED output_file
                  /\ Uncaught("OSError")
             [] fault = "write" ->
                  /\ output_file' = [state |-> "partial", doc |-> None]
                  /\ Uncaught("OSError")

\* run, line 475: generate_proof_file; the bound names are the local
\* variables summary_table and engineer_review and the values of template
GenerateProofFile ==
    /\ pc = "generate"
    /\ calls' = calls \cup {"generate_proof_file"}
    /\ IF ~fs.template
       THEN /\ Uncaught("FileNotFoundError")
            /\ UNCHANGED <<output_file, io_fault, template>>
       ELSE \E replaced \in {ReplaceLiterals(read_text(files.template))},
               summary_table \in {generate_stage_summary},
               engineer_review \in {generate_engineer_review_prompts} :
            IF summary_table.kind = "ValueError"
            THEN /\ Uncaught("ValueError")
                 /\ template' = replaced
                 /\ UNCHANGED <<output_file, io_fault>>
            ELSE \E with_summary \in {InsertSummaryTable(replaced,
                                                         summary_table)} :
                 IF engineer_review.kind = "ValueError"
                 THEN /\ Uncaught("ValueError")
                      /\ template' = with_summary
                      /\ UNCHANGED <<output_file, io_fault>>
                 ELSE \E text \in {InsertEngineerReview(with_summary,
                                                        engineer_review)} :
                      /\ template' = text
                      /\ WriteOutput(summary_table, engineer_review, text)
    /\ UNCHANGED <<argv, fs, files, reported, stage_number, tech_stack>>

\* run, lines 478-488: verify_proof_file reads the output and reports; run
\* returns 0
VerifyProofFile ==
    /\ pc = "verify"
    /\ calls' = calls \cup {"verify_proof_file"}
    /\ \E content \in {read_text(output_file.doc.text)} :
         reported' = [printed |-> TRUE,
                      count |-> Cardinality(FindPlaceholders(content)),
                      names |-> {content[i] : i \in FindPlaceholders(content)}]
    /\ ret' = [kind |-> "int"]
    /\ exit_code' = 0
    /\ pc' = "done"
    /\ UNCHANGED <<argv, fs, files, template, stage_number, tech_stack,
                   output_file, io_fault>>

-----------------------------------------------------------------------------
(* main: the command line.                                                 *)

HelpFlag == <<"-", "-", "h", "e", "l", "p">>
TechFlag == <<"-", "-", "t", "e", "c", "h">>

\* a character str.isdigit() accepts and int() does not: the superscript two
SuperscriptTwo == "SUPERSCRIPT TWO"

\* str.isdigit()
isdigit(a) == a # <<>> /\ \A i \in 1..Len(a) : a[i] \in Digits \cup {SuperscriptTwo}

\* int(a) returns for the strings of ASCII digits (isdigit(a) holds where
\* main calls it) and raises ValueError for the others
IntRaises(a) == \E i \in 1..Len(a) : a[i] \notin Digits

\* str.lower()
LowerChar(c) ==
    CASE c = "D" -> "d" [] c = "O" -> "o" [] c = "T" -> "t" [] c = "N" -> "n"
      [] c = "E" -> "e" [] OTHER -> c
LowerStr(a) == [i \in 1..Len(a) |-> LowerChar(a[i])]

NothingParsed == [stage_set |-> FALSE, stage |-> 0, tech_set |-> FALSE,
                  tech |-> <<>>, raised |-> FALSE]

\* the loop of lines 533-538 from argument i on; acc is what it has set
RECURSIVE ParseArgs(_, _, _)
ParseArgs(args, i, acc) ==
    IF i > Len(args) \/ acc.raised THEN acc
    ELSE IF args[i] = TechFlag
         THEN ParseArgs(args, i + 1,
                        IF i + 1 <= Len(args)
                        THEN [acc EXCEPT !.tech_set = TRUE,
                                         !.tech = LowerStr(args[i + 1])]
                        ELSE acc)
    ELSE IF isdigit(args[i])
         THEN IF IntRaises(args[i]) THEN [acc EXCEPT !.raised = TRUE]
              ELSE ParseArgs(args, i + 1,
                             [acc EXCEPT !.stage_set = TRUE,
                                         !.stage = IntOf(args[i])])
    ELSE ParseArgs(args, i + 1, acc)

\* main once the arguments are parsed, lines 540-561
MainParsed(parsed) ==
    LET detect == ~parsed.tech_set \/ parsed.tech = <<>>
        tech == IF ~detect THEN parsed.tech
                ELSE IF fs.package_json THEN Typescript
                ELSE Dotnet
    IN  IF parsed.raised
        THEN Uncaught("ValueError")
             /\ UNCHANGED <<stage_number, tech_stack, calls>>
        ELSE IF \/ ~parsed.stage_set \/ parsed.stage = 0
                \/ detect /\ ~fs.package_json /\ ~fs.sln
                \/ tech \notin {Dotnet, Typescript}
        THEN /\ exit_code' = 2
             /\ pc' = "done"
             /\ UNCHANGED <<stage_number, tech_stack, calls, ret>>
        ELSE /\ stage_number' = parsed.stage
             /\ tech_stack' = tech
             /\ calls' = {"run"}
             /\ pc' = "run"
             /\ UNCHANGED <<exit_code, ret>>

Main ==
    /\ pc = "main"
    /\ IF argv = <<>> \/ \E i \in 1..Len(argv) : argv[i] = HelpFlag
       THEN /\ exit_code' = IF argv = <<>> THEN 2 ELSE 0
            /\ pc' = "done"
            /\ UNCHANGED <<stage_number, tech_stack, calls, ret>>
       ELSE MainParsed(ParseArgs(argv, 1, NothingParsed))
    /\ UNCHANGED <<argv, fs, files, template, reported, output_file, io_fault>>

-----------------------------------------------------------------------------
(* The inputs.                                                             *)

GateNames == {"gate-1-lint.txt", "gate-3-build.txt", "gate-5-tests.txt",
              "gate-6-coverage.txt", "gate-7-security.txt"}

\* the phrases a test artifact is made of
TestPieces ==
    {<<w, " ">> \o n : w \in {"Passed:", "Total:", "Failed:"},
                        n \in {<<"0">>, <<"2">>, <<"4", "0">>, <<"4", "2">>}}
    \cup {<<"Failed:", " ", "0", "0">>, <<"Skipped:", " ", "2">>,
          <<"Passed:", "4", "2">>, <<"Total:", " ", " ", "x">>,
          <<"\n">>, <<",", " ">>,
          <<"Tests:", " ", "4", "0", " ", "passed,", " ", "4", "2", " ",
            "total">>,
          <<"Tests:", " ", "4", "2", " ", "passed,", "\n", "4", "2", " ",
            "total">>,
          <<"Tests:", " ", "2", " ", "failed,", " ", "4", "0", " ",
            "passed,", " ", "4", "2", " ", "total">>,
          <<"Tests:", " ", "4", "2", " ", "passed,", " ", "4", "2",
            "total">>}

TestTexts == {Flatten(ps) : ps \in SeqUpTo(TestPieces, MaxPieces)}

NoText == <<>>

\* the percentages a coverage artifact reports, and strings of [\d.] that
\* are no number
CoverageNumerals ==
    {<<"9", "2", ".", "5">>, <<"9", "0", ".", "0">>, <<"9", "0">>,
     <<"8", "5", ".", "0">>, <<"8", "9", ".", "9">>, <<"1", "0", "0">>,
     <<"1", "5", "0">>, <<"0">>, <<".">>, <<"1", ".", "2", ".", "3">>,
     <<"8", "9", ".", "9", "9", "9", "9", "9", "9", "9", "9", "9", "9", "9",
       "9", "9", "9">>,
     <<"8", "9", ".", "9", "9", "9", "9", "9", "9", "9", "9", "9", "9", "9",
       "9", "9", "9", "9">>}

\* the phrases a coverage artifact is made of
CoveragePieces ==
    {<<"Line coverage:", " ">> \o n \o <<"%">> : n \in CoverageNumerals}
    \cup {<<"All files", " ", "|", " ">> \o n : n \in CoverageNumerals}
    \cup {<<"Line coverage:", " ", "9", "5">>,
          <<"Line coverage:", "9", "5", "%">>,
          <<"All files", " ", "x", "|", "x", "|", "\n", "7", "0">>,
          <<"All files", "\n", "|", " ", "9", "5">>,
          <<"|", " ", "9", "9">>, <<"\n">>, <<"x">>}

CoverageTexts == {Flatten(ps) : ps \in SeqUpTo(CoveragePieces, MaxCovPieces)}

\* artifacts of a clean run
SampleTests == <<"Failed:", " ", "0", ",", " ", "Passed:", " ", "4", "2",
                 ",", " ", "Total:", " ", "4", "2">>
SampleBuild == <<"0", " ", "Warning(s)", "\n", "0", " ", "Error", "(s)">>
SampleSecurity == <<"no vulnerable packages">>

\* a template with the placeholders, the summary table and the review
\* section before the Integration Status header
SampleTemplate ==
    <<"Stage", " ", "[X]", ":", " ", "[Stage Name]", "\n",
      "[YYYY-MM-DD]", " ", ".NET / TypeScript / Both", "\n",
      "|", " ", "Metric", " ", "|", " ", "Target", " ", "|", "\n",
      "|", " ", "Deliverables", " ", "|", " ", "[N/N]", " ", "|", "\n",
      ReviewHeader, "\n", "[TO BE]", "\n", Sentinel, "\n", "[TBD]", "\n">>

\* a working directory in which every prerequisite and artifact is there
FullFs == [dir |-> TRUE, template |-> TRUE, gates |-> GateNames,
           package_json |-> FALSE, sln |-> FALSE]

-----------------------------------------------------------------------------
(* extract_test_results over the test artifacts.                           *)

InitTests ==
    /\ argv = <<>>
    /\ \E present \in BOOLEAN :
         fs = [FullFs EXCEPT !.gates =
                 IF present THEN GateNames
                 ELSE GateNames \ {"gate-5-tests.txt"}]
    /\ \E t \in TestTexts :
         files = [tests |-> t, coverage |-> NoText, build |-> NoText,
                  security |-> NoText,
                  template |-> SampleTemplate]
    /\ stage_number = 1
    /\ tech_stack \in {Dotnet, Typescript}
    /\ pc = "call"
    /\ exit_code = -1
    /\ output_file = NoFile
    /\ calls = {}
    /\ io_fault = "none"
    /\ ret = None
    /\ template = NoText
    /\ reported = NotReported

CallExtractTestResults ==
    /\ pc = "call"
    /\ ret' = extract_test_results
    /\ pc' = "returned"
    /\ UNCHANGED <<argv, fs, files, template, reported, stage_number, tech_stack, exit_code,
                   output_file, calls, io_fault>>

NextTests == CallExtractTestResults

SpecTests == InitTests /\ [][NextTests]_vars

-----------------------------------------------------------------------------
(* What a test artifact says, read off the text without the extractor.     *)

\* the text holds "<word>", blanks, then a digit
Reports(s, word) ==
    \E i \in 1..Len(s), j \in 1..Len(s) :
        /\ i + 1 < j
        /\ s[i] = word
        /\ \A k \in (i + 1)..(j - 1) : s[k] \in WS
        /\ s[j] \in Digits

\* where the passed and the total counts of the returned record were read
PassedAt ==
    IF tech_stack = Dotnet THEN SearchWordNumber(files.tests, "Passed:").at
    ELSE SearchTestsLine(files.tests).at1
TotalAt ==
    IF tech_stack = Dotnet THEN SearchWordNumber(files.tests, "Total:").at
    ELSE SearchTestsLine(files.tests).at2

\* no newline lies between the two positions
SameLine(s, i, j) ==
    \A k \in 1..Len(s) : (i <= k /\ k <= j) \/ (j <= k /\ k <= i) => s[k] # "\n"

TestsReturned == pc = "returned" /\ ret.kind = "tests"

\* C6 as stated: for dotnet a record is returned only if the Passed, the
\* Total and the Failed counts are all three found in the text.
C6_AllThreeRequired ==
    (TestsReturned /\ tech_stack = Dotnet) =>
        /\ Reports(files.tests, "Passed:")
        /\ Reports(files.tests, "Total:")
        /\ Reports(files.tests, "Failed:")

\* C6 as amended: for dotnet, with the test artifact there, a record is
\* returned if and only if the Passed and the Total counts are both found;
\* a missing Failed count does not make the result absent: the record then
\* reports failed as "0" with status PASS, and otherwise the count found.
C6_PassedAndTotalRequired ==
    (pc = "returned" /\ tech_stack = Dotnet /\ GateFileExists("gate-5-tests.txt")) =>
        /\ ret.kind = "tests" <=>
              (Reports(files.tests, "Passed:") /\ Reports(files.tests, "Total:"))
        /\ (ret.kind = "tests" /\ ~Reports(files.tests, "Failed:")) =>
              (ret.failed = <<"0">> /\ ret.status = PASS)
        /\ (ret.kind = "tests" /\ Reports(files.tests, "Failed:")) =>
              ret.failed = SearchWordNumber(files.tests, "Failed:").text

\* a dotnet record returned for a text with no Failed count
C6_Witness ==
    /\ TestsReturned
    /\ tech_stack = Dotnet
    /\ ~Reports(files.tests, "Failed:")
    /\ IntOf(ret.total) > 0

\* C7: every record returned, for either tech stack, has
\* failed = total - passed whenever passed and total were read from the
\* same line of the text (stated for the texts whose counts are those of a
\* test run: passed is at most total).
C7_FailedIsTotalMinusPassed ==
    (/\ TestsReturned
     /\ SameLine(files.tests, PassedAt, TotalAt)
     /\ IntOf(ret.passed) <= IntOf(ret.total)) =>
        IntOf(ret.failed) = IntOf(ret.total) - IntOf(ret.passed)

\* C8: every record returned, for either tech stack, has status FAIL if and
\* only if its failed count is not the number zero.
C8_FailIffFailedNonzero ==
    TestsReturned => (ret.status = FAIL <=> IntOf(ret.failed) # 0)

-----------------------------------------------------------------------------
(* extract_coverage and generate_stage_summary over the coverage artifacts.*)

InitCoverage ==
    /\ argv = <<>>
    /\ \E present \in BOOLEAN :
         fs = [FullFs EXCEPT !.gates =
                 IF present THEN GateNames
                 ELSE GateNames \ {"gate-6-coverage.txt"}]
    /\ \E t \in CoverageTexts :
         files = [tests |-> SampleTests, coverage |-> t,
                  build |-> SampleBuild, security |-> SampleSecurity,
                  template |-> SampleTemplate]
    /\ stage_number = 1
    /\ tech_stack \in {Dotnet, Typescript}
    /\ pc = "call"
    /\ exit_code = -1
    /\ output_file = NoFile
    /\ calls = {}
    /\ io_fault = "none"
    /\ ret = None
    /\ template = NoText
    /\ reported = NotReported

CallExtractCoverage ==
    /\ pc = "call"
    /\ ret' = extract_coverage
    /\ pc' = "returned"
    /\ UNCHANGED <<argv, fs, files, template, reported, stage_number, tech_stack, exit_code,
                   output_file, calls, io_fault>>

CallGenerateStageSummary ==
    /\ pc = "call"
    /\ ret' = generate_stage_summary
    /\ pc' = "returned"
    /\ UNCHANGED <<argv, fs, files, template, reported, stage_number, tech_stack, exit_code,
                   output_file, calls, io_fault>>

NextCoverage == CallExtractCoverage \/ CallGenerateStageSummary

SpecCoverage == InitCoverage /\ [][NextCoverage]_vars

\* the decimal a string of digits and dots denotes is at least 90, and is
\* at most 100
DecimalAtLeast90(f) == IntOf(f.int) >= 90
DecimalAtMost100(f) ==
    \/ IntOf(f.int) < 100
    \/ IntOf(f.int) = 100 /\ \A i \in 1..Len(f.frac) : f.frac[i] = "0"

\* C9: extract_coverage returns None or a number in the range [0, 100].
C9_CoverageIsPercentage ==
    (pc = "returned" /\ ret.kind = "str") =>
        (FloatOf(ret.text).ok /\ DecimalAtMost100(FloatOf(ret.text)))

\* C10: in a summary table the Code Coverage row's status is PASS iff a
\* coverage value is present and >= 90, FAIL iff one is present and < 90,
\* and the placeholder [STATUS] iff coverage is absent.
C10_CoverageStatus ==
    (pc = "returned" /\ ret.kind = "table") =>
        LET coverage == extract_coverage
            present == coverage.kind = "str"
            f == FloatOf(coverage.text)
        IN  /\ ret.coverage_status = <<PASS>> <=>
                  (present /\ DecimalAtLeast90(f))
            /\ ret.coverage_status = <<FAIL>> <=>
                  (present /\ ~DecimalAtLeast90(f))
            /\ ret.coverage_status = <<"[STATUS]">> <=> ~present

-----------------------------------------------------------------------------
(* ProofGenerator.run over the working directories.                        *)

\* the coverage artifacts of the runs
RunCoverageTexts ==
    {NoText,
     <<"Line coverage:", " ", "9", "2", ".", "5", "%">>,
     <<"Line coverage:", " ", "1", ".", "2", ".", "3", "%">>,
     <<"Line coverage:", " ", "9", "0", "%">>,
     <<"All files", " ", "|", " ", "8", "5", ".", "0">>}

\* the working directories: there are artifacts only in a directory
WorkingDirs ==
    {[dir |-> d, template |-> t, gates |-> g, package_json |-> FALSE,
      sln |-> FALSE] :
        d \in BOOLEAN, t \in BOOLEAN, g \in SUBSET GateNames}
    \ {w \in [dir : {FALSE}, template : BOOLEAN, gates : SUBSET GateNames,
              package_json : {FALSE}, sln : {FALSE}] : w.gates # {}}

Init ==
    /\ argv = <<>>
    /\ fs \in WorkingDirs
    /\ files \in [tests : {NoText, SampleTests},
                  coverage : RunCoverageTexts,
                  build : {NoText, SampleBuild},
                  security : {SampleSecurity, <<"HIGH">>},
                  template : {SampleTemplate}]
    /\ stage_number \in 1..MaxStage
    /\ tech_stack \in {Dotnet, Typescript}
    /\ pc = "run"
    /\ exit_code = -1
    /\ output_file = NoFile
    /\ calls = {"run"}
    /\ io_fault = "none"
    /\ ret = None
    /\ template = NoText
    /\ reported = NotReported

Next == CheckRequirements \/ GenerateProofFile \/ VerifyProofFile

Spec == Init /\ [][Next]_vars

\* the prerequisites of a run, read off the working directory
DirectoryMissing == ~fs.dir
TemplateMissing == ~fs.template
NoGateFile == \A g \in GateNames : ~(fs.dir /\ g \in fs.gates)
PrerequisitesMet == ~DirectoryMissing /\ ~TemplateMissing /\ ~NoGateFile

\* C1: when the .gate-outputs directory, the template or every gate-*.txt
\* file is missing, run returns 2, the output document is never written and
\* neither generate_proof_file nor verify_proof_file is executed.
C1_MissingPrerequisite ==
    ~PrerequisitesMet =>
        /\ output_file = NoFile
        /\ "generate_proof_file" \notin calls
        /\ "verify_proof_file" \notin calls
        /\ pc = "done" => exit_code = 2
        /\ pc # "done" => pc = "run"

\* a run that ended for a missing template alone
C1_Witness ==
    /\ pc = "done"
    /\ exit_code = 2
    /\ TemplateMissing /\ ~DirectoryMissing /\ ~NoGateFile

\* C2: whenever the prerequisites are met, whichever artifacts are there and
\* whichever patterns match, the run writes the document and returns 0, a
\* metric that was not extracted being a placeholder in the document (stated
\* for the runs in which the file system does not fail the write).
C2_GracefulDegradation ==
    (pc = "done" /\ PrerequisitesMet /\ io_fault = "none") =>
        /\ exit_code = 0
        /\ output_file.state = "written"
        /\ extract_coverage = None =>
              output_file.doc.summary.coverage_str = <<"[XX%]">>
        /\ extract_test_results = None =>
              output_file.doc.summary.test_str = <<"[N/N]">>

\* C3: a failure raised while composing or writing the document ends the
\* process with status 1 and leaves no output document written.
C3_AllOrNothing ==
    (pc = "done" /\ "generate_proof_file" \in calls
       /\ "verify_proof_file" \notin calls) =>
        /\ exit_code = 1
        /\ output_file = NoFile

-----------------------------------------------------------------------------
(* main over the command lines.                                            *)

Arguments ==
    {HelpFlag, TechFlag, <<"7">>, <<"0">>, <<"1", "2">>, Dotnet,
     <<"D", "O", "T", "N", "E", "T">>, Typescript, <<"r", "u", "s", "t">>,
     <<SuperscriptTwo>>, <<>>}

InitMain ==
    /\ argv \in SeqUpTo(Arguments, MaxArgs)
    /\ \E d \in BOOLEAN, p \in BOOLEAN, m \in BOOLEAN :
         fs = [dir |-> d, template |-> TRUE,
               gates |-> IF d THEN GateNames ELSE {},
               package_json |-> p, sln |-> m]
    /\ files = [tests |-> SampleTests,
                coverage |-> <<"Line coverage:", " ", "9", "2", ".", "5", "%">>,
                build |-> SampleBuild, security |-> SampleSecurity,
                  template |-> SampleTemplate]
    /\ stage_number = 0
    /\ tech_stack = <<>>
    /\ pc = "main"
    /\ exit_code = -1
    /\ output_file = NoFile
    /\ calls = {}
    /\ io_fault = "none"
    /\ ret = None
    /\ template = NoText
    /\ reported = NotReported

NextMain == Main \/ CheckRequirements \/ GenerateProofFile \/ VerifyProofFile

SpecMain == InitMain /\ [][NextMain]_vars

\* What the command line gives, read off argv: the stage number is the last
\* argument that is a decimal numeral, the tech stack the value of the last
\* --tech that has one, in lower case; an empty value gives none.
IsNumeral(a) == a # <<>> /\ \A i \in 1..Len(a) : a[i] \in Digits
NumeralArgs == {i \in 1..Len(argv) : IsNumeral(argv[i])}
GivenStage ==
    IF NumeralArgs = {} THEN 0
    ELSE IntOf(argv[CHOOSE i \in NumeralArgs : \A j \in NumeralArgs : j <= i])
TechArgs == {i \in 2..Len(argv) : argv[i - 1] = TechFlag}
GivenTech ==
    IF TechArgs = {} THEN <<>>
    ELSE LowerStr(argv[CHOOSE i \in TechArgs : \A j \in TechArgs : j <= i])
InferredTech ==
    IF fs.package_json THEN Typescript ELSE IF fs.sln THEN Dotnet ELSE <<>>
GivenOrInferredTech == IF GivenTech # <<>> THEN GivenTech ELSE InferredTech

\* C4: if no positive-integer stage number is given, or the given or
\* inferred tech stack is not one of the two, or none is given and none can
\* be inferred, main returns 2 and the generator is never run; otherwise the
\* generator runs with the given stage number and the given or inferred
\* tech stack (stated for the command lines without --help, which print the
\* usage and end with 0).
C4_Usage ==
    (pc # "main" /\ \A i \in 1..Len(argv) : argv[i] # HelpFlag) =>
        IF GivenStage <= 0 \/ GivenOrInferredTech \notin {Dotnet, Typescript}
        THEN pc = "done" /\ exit_code = 2 /\ calls = {}
        ELSE /\ "run" \in calls
             /\ stage_number = GivenStage
             /\ tech_stack = GivenOrInferredTech

-----------------------------------------------------------------------------
(* The review section over the stage numbers.                              *)

InitReview ==
    /\ argv = <<>>
    /\ \E g \in SUBSET {"gate-5-tests.txt", "gate-6-coverage.txt"} :
         fs = [FullFs EXCEPT !.gates = {"gate-1-lint.txt"} \cup g]
    /\ files \in [tests : {NoText, SampleTests},
                  coverage : RunCoverageTexts,
                  build : {NoText},
                  security : {NoText},
                  template : {SampleTemplate}]
    /\ stage_number \in (0 - NegStages)..MaxStage
    /\ tech_stack \in {Dotnet, Typescript}
    /\ pc = "call"
    /\ exit_code = -1
    /\ output_file = NoFile
    /\ calls = {}
    /\ io_fault = "none"
    /\ ret = None
    /\ template = NoText
    /\ reported = NotReported

CallGetStageGuidance ==
    /\ pc = "call"
    /\ ret' = _get_stage_specific_guidance
    /\ pc' = "returned"
    /\ UNCHANGED <<argv, fs, files, template, reported, stage_number, tech_stack, exit_code,
                   output_file, calls, io_fault>>

CallGenerateReview ==
    /\ pc = "call"
    /\ ret' = generate_engineer_review_prompts
    /\ pc' = "returned"
    /\ UNCHANGED <<argv, fs, files, template, reported, stage_number, tech_stack, exit_code,
                   output_file, calls, io_fault>>

NextReview == CallGetStageGuidance \/ CallGenerateReview

SpecReview == InitReview /\ [][NextReview]_vars

\* C5: every stage number <= 4 gets the foundation guidance, every one from
\* 5 to 7 the execution guidance, every one >= 8 the hardening guidance, and
\* the default fallback is returned for no stage number.
C5_TierBoundaries ==
    (pc = "returned" /\ ret.kind = "guidance") =>
        /\ stage_number <= 4 => ret.tier = "foundation"
        /\ (5 <= stage_number /\ stage_number <= 7) => ret.tier = "execution"
        /\ stage_number >= 8 => ret.tier = "hardening"
        /\ ret.tier # "default"

\* the guidance of stage 4, the last of the foundation tier
C5_Witness ==
    /\ pc = "returned"
    /\ ret.kind = "guidance"
    /\ stage_number = 4
    /\ ret.tier = "foundation"

-----------------------------------------------------------------------------
(* extract_build_info over the build artifacts.                            *)

\* the phrases a build artifact is made of
BuildPieces ==
    {n \o <<" ", "Warning(s)">> : n \in {<<"0">>, <<"2">>, <<"0", "0">>,
                                         <<"1", "0">>}}
    \cup {n \o <<" ", "Error", "(s)">> : n \in {<<"0">>, <<"3">>}}
    \cup {<<"Warning(s)">>, <<"0", " ", " ", "Error", "(s)">>,
          <<"2", "Warning(s)">>, <<"0", " ", "Error">>,
          <<"\n">>, <<"error">>, <<"0", " ", "error", "s">>, <<"ERROR">>}

BuildTexts == {Flatten(ps) : ps \in SeqUpTo(BuildPieces, MaxPieces)}

InitBuild ==
    /\ argv = <<>>
    /\ \E present \in BOOLEAN :
         fs = [FullFs EXCEPT !.gates =
                 IF present THEN GateNames
                 ELSE GateNames \ {"gate-3-build.txt"}]
    /\ \E t \in BuildTexts :
         files = [tests |-> SampleTests, coverage |-> NoText, build |-> t,
                  security |-> SampleSecurity,
                  template |-> SampleTemplate]
    /\ stage_number = 1
    /\ tech_stack \in {Dotnet, Typescript}
    /\ pc = "call"
    /\ exit_code = -1
    /\ output_file = NoFile
    /\ calls = {}
    /\ io_fault = "none"
    /\ ret = None
    /\ template = NoText
    /\ reported = NotReported

CallExtractBuildInfo ==
    /\ pc = "call"
    /\ ret' = extract_build_info
    /\ pc' = "returned"
    /\ UNCHANGED <<argv, fs, files, template, reported, stage_number, tech_stack, exit_code,
                   output_file, calls, io_fault>>

NextBuild == CallExtractBuildInfo

SpecBuild == InitBuild /\ [][NextBuild]_vars

\* What a build artifact says, read off the text without the extractor: the
\* text holds a count "N <words>", a digit, one blank and the words
HasCount(s, words) ==
    \E i \in 1..Len(s) :
        /\ s[i] \in Digits
        /\ i + 1 + Len(words) <= Len(s)
        /\ s[i + 1] = " "
        /\ SubSeq(s, i + 2, i + 1 + Len(words)) = words

\* C11: for dotnet, with the build artifact there, a record is returned if
\* and only if the text holds both an "N Warning(s)" and an "N Error(s)"
\* count, and in a returned record status is FAIL if and only if the
\* warnings count is not the number zero, whatever the errors count.
C11_DotnetBuild ==
    (pc = "returned" /\ tech_stack = Dotnet
       /\ GateFileExists("gate-3-build.txt")) =>
        /\ ret.kind = "build" <=>
              (/\ HasCount(files.build, <<"Warning(s)">>)
               /\ HasCount(files.build, <<"Error", "(s)">>))
        /\ ret.kind = "build" =>
              (ret.status = FAIL <=> IntOf(ret.warnings) # 0)

-----------------------------------------------------------------------------
(* extract_vulnerabilities over the security artifacts.                    *)

\* the phrases a security artifact is made of
SecurityPieces ==
    {<<"no vulnerable packages">>, <<"No vulnerable packages">>,
     <<"0", " ", "vulnerabilities">>, <<"1", "0", " ", "vulnerabilities">>,
     <<"3", " ", "vulnerabilities">>, <<"0", " ", "Vulnerabilities">>,
     <<"HIGH">>, <<"high">>, <<"Moderate">>, <<"CRITICAL">>, <<"low">>,
     <<"\n">>, <<" ">>}

SecurityTexts == {Flatten(ps) : ps \in SeqUpTo(SecurityPieces, MaxPieces)}

InitSecurity ==
    /\ argv = <<>>
    /\ \E present \in BOOLEAN :
         fs = [FullFs EXCEPT !.gates =
                 IF present THEN GateNames
                 ELSE GateNames \ {"gate-7-security.txt"}]
    /\ \E t \in SecurityTexts :
         files = [tests |-> SampleTests, coverage |-> NoText,
                  build |-> SampleBuild, security |-> t,
                  template |-> SampleTemplate]
    /\ stage_number = 1
    /\ tech_stack \in {Dotnet, Typescript}
    /\ pc = "call"
    /\ exit_code = -1
    /\ output_file = NoFile
    /\ calls = {}
    /\ io_fault = "none"
    /\ ret = None
    /\ template = NoText
    /\ reported = NotReported

CallExtractVulnerabilities ==
    /\ pc = "call"
    /\ ret' = extract_vulnerabilities
    /\ pc' = "returned"
    /\ UNCHANGED <<argv, fs, files, template, reported, stage_number, tech_stack, exit_code,
                   output_file, calls, io_fault>>

NextSecurity == CallExtractVulnerabilities

SpecSecurity == InitSecurity /\ [][NextSecurity]_vars

\* What a security artifact says, read off the text without the extractor.
\* The text states an all-clear: it holds "no vulnerable packages" in
\* whatever letter case, or the count "0 vulnerabilities", the 0 being the
\* whole count and not the last digit of a larger one
StatesAllClear(s) ==
    \/ \E i \in 1..Len(s) :
          s[i] \in {"no vulnerable packages", "No vulnerable packages"}
    \/ \E i \in 1..(Len(s) - 2) :
          /\ SubSeq(s, i, i + 2) = <<"0", " ", "vulnerabilities">>
          /\ i > 1 => s[i - 1] \notin Digits

\* the occurrences of HIGH, MODERATE and CRITICAL in whatever letter case
SeverityOccurrences(s) ==
    {i \in 1..Len(s) : s[i] \in {"HIGH", "High", "high",
                                 "MODERATE", "Moderate", "moderate",
                                 "CRITICAL", "Critical", "critical"}}

\* C12: with the security artifact there, extract_vulnerabilities returns
\* "0" whenever the text states an all-clear, severity tokens or not, and
\* otherwise the number of occurrences of the severity tokens; so the result
\* is "0" only when the text states an all-clear or holds no severity token.
C12_Vulnerabilities ==
    (pc = "returned" /\ GateFileExists("gate-7-security.txt")) =>
        /\ ret.kind = "str"
        /\ StatesAllClear(files.security) => ret.text = <<"0">>
        /\ ~StatesAllClear(files.security) =>
              IntOf(ret.text) = Cardinality(SeverityOccurrences(files.security))
        /\ ret.text = <<"0">> =>
              \/ StatesAllClear(files.security)
              \/ SeverityOccurrences(files.security) = {}

-----------------------------------------------------------------------------
(* generate_proof_file step by step over the templates.                    *)

\* the passages a template is made of
TemplatePieces ==
    {<<"[X]", " ", "[YYYY-MM-DD]", " ", "[Stage Name]", " ",
       ".NET / TypeScript / Both", "\n">>,
     <<"|", " ", "Metric", " ", "|", " ", "[X]", "\n">>,
     <<"|", " ", "Deliverables", " ", "|", " ", "[N/N]", "\n">>,
     <<"|", "Deliverables", "|">>,
     <<"|", "Metric", "|", " ", "|", "\n", "Deliverables", "|", "[X]",
       "\n">>,
     <<ReviewHeader, "\n", "[TODO]", "\n">>,
     <<Sentinel, "\n">>,
     <<"text", "\r\n">>}

Templates == {Flatten(ps) : ps \in SeqUpTo(TemplatePieces, MaxTplPieces)}

\* NextStep with the review section inserted before the summary table
NextStep_ReviewFirst(step) ==
    CASE step = "literals" -> "review"
      [] step = "review" -> "summary"
      [] step = "summary" -> "write"

\* the step of generate_proof_file that follows a step
NextStep(step) ==
    CASE step = "literals" -> "summary"
      [] step = "summary" -> "review"
      [] step = "review" -> "write"

InitSynth ==
    /\ argv = <<>>
    /\ fs \in {FullFs, [FullFs EXCEPT !.gates = {"gate-1-lint.txt"}]}
    /\ \E t \in Templates :
         files = [tests |-> SampleTests,
                  coverage |-> <<"Line coverage:", " ", "9", "2", ".", "5", "%">>,
                  build |-> SampleBuild, security |-> SampleSecurity,
                  template |-> t]
    /\ stage_number = 7
    /\ tech_stack \in {Dotnet, Typescript}
    /\ pc = "generate"
    /\ exit_code = -1
    /\ output_file = NoFile
    /\ calls = {"run", "check_requirements"}
    /\ io_fault = "none"
    /\ ret = None
    /\ template = NoText
    /\ reported = NotReported

\* lines 385-397: the template is read and the placeholders are replaced
ReadAndReplace ==
    /\ pc = "generate"
    /\ calls' = calls \cup {"generate_proof_file"}
    /\ template' = ReplaceLiterals(read_text(files.template))
    /\ pc' = NextStep("literals")
    /\ UNCHANGED <<argv, fs, files, reported, stage_number, tech_stack,
                   exit_code, output_file, io_fault, ret>>

\* lines 400-407
InsertSummary ==
    /\ pc = "summary"
    /\ \E summary_table \in {generate_stage_summary} :
         IF summary_table.kind = "ValueError"
         THEN Uncaught("ValueError") /\ UNCHANGED template
         ELSE /\ template' = InsertSummaryTable(template, summary_table)
              /\ pc' = NextStep("summary")
              /\ UNCHANGED <<exit_code, ret>>
    /\ UNCHANGED <<argv, fs, files, reported, stage_number, tech_stack,
                   output_file, calls, io_fault>>

\* lines 410-417
InsertReview ==
    /\ pc = "review"
    /\ \E engineer_review \in {generate_engineer_review_prompts} :
         IF engineer_review.kind = "ValueError"
         THEN Uncaught("ValueError") /\ UNCHANGED template
         ELSE /\ template' = InsertEngineerReview(template, engineer_review)
              /\ pc' = NextStep("review")
              /\ UNCHANGED <<exit_code, ret>>
    /\ UNCHANGED <<argv, fs, files, reported, stage_number, tech_stack,
                   output_file, calls, io_fault>>

\* lines 420-423
WriteText ==
    /\ pc = "write"
    /\ \E summary_table \in {generate_stage_summary},
          engineer_review \in {generate_engineer_review_prompts} :
         WriteOutput(summary_table, engineer_review, template)
    /\ UNCHANGED <<argv, fs, files, template, reported, stage_number,
                   tech_stack, calls>>

NextSynth ==
    ReadAndReplace \/ InsertSummary \/ InsertReview \/ WriteText
    \/ VerifyProofFile

SpecSynth == InitSynth /\ [][NextSynth]_vars

\* What a template says, read off its text.  To the patterns a line end is
\* a line end however it is written.
TemplateLines == read_text(files.template)

\* the summary pattern matches from s[i] on through a Deliverables cell at
\* s[q] and the newline s[n]
SummarySpan(s, i, q, n) ==
    /\ CellEnd(s, i, "Metric") # 0
    /\ q >= CellEnd(s, i, "Metric")
    /\ CellEnd(s, q, "Deliverables") # 0
    /\ n >= CellEnd(s, q, "Deliverables")
    /\ s[n] = "\n"

SummaryPatternMatches(s) ==
    \E i \in 1..Len(s) :
        /\ CellEnd(s, i, "Metric") # 0
        /\ \E q \in 1..Len(s) :
              /\ CellEnd(s, q, "Deliverables") # 0
              /\ \E n \in 1..Len(s) : SummarySpan(s, i, q, n)

\* the review pattern matches from the header s[i] up to the sentinel s[j]
ReviewSpan(s, i, j) ==
    /\ i < j
    /\ s[i] = ReviewHeader
    /\ s[j] = Sentinel

ReviewPatternMatches(s) ==
    \E i \in 1..Len(s) :
        /\ s[i] = ReviewHeader
        /\ \E j \in 1..Len(s) : ReviewSpan(s, i, j)

\* the value a placeholder stands for, <<>> for a token that is none
LiteralValue(tok) ==
    CASE tok = "[X]" -> StrOfNat(stage_number)
      [] tok = "[YYYY-MM-DD]" -> Today
      [] tok = "[Stage Name]" -> <<"Stage", " ">> \o StrOfNat(stage_number)
      [] tok = ".NET / TypeScript / Both" -> UpperStr(tech_stack)
      [] OTHER -> <<>>

LiteralTokens ==
    {"[X]", "[YYYY-MM-DD]", "[Stage Name]", ".NET / TypeScript / Both"}

\* s with every placeholder replaced by its value, and nothing else changed
Substituted(s) ==
    Flatten([i \in 1..Len(s) |->
                IF s[i] \in LiteralTokens THEN LiteralValue(s[i])
                ELSE <<s[i]>>])

DocumentWritten == output_file.state = "written"

\* C13: for every template in which neither the summary pattern nor the
\* review pattern matches, the document written is the template with the
\* four placeholders replaced and nothing else changed.
C13_RoundTrip ==
    (/\ DocumentWritten
     /\ ~SummaryPatternMatches(TemplateLines)
     /\ ~ReviewPatternMatches(TemplateLines)) =>
        output_file.doc.text = Substituted(files.template)

\* position p of the template lies in a span the summary pattern can match:
\* from a header cell through the line of a Deliverables cell after it
InSummarySpan(s, p) ==
    \E i \in 1..p :
        /\ CellEnd(s, i, "Metric") # 0
        /\ \E q \in 1..Len(s) :
              /\ CellEnd(s, q, "Deliverables") # 0
              /\ \E n \in p..Len(s) :
                    /\ SummarySpan(s, i, q, n)
                    /\ \A k \in CellEnd(s, q, "Deliverables")..(n - 1) :
                          s[k] # "\n"

\* position p lies in a span the review pattern can match: from a review
\* header up to, and without, a sentinel after it
InReviewSpan(s, p) ==
    \E i \in 1..p :
        /\ s[i] = ReviewHeader
        /\ \E j \in (p + 1)..Len(s) : ReviewSpan(s, i, j)

\* the tokens of the template outside the placeholders and the two spans,
\* from position p on
RECURSIVE Outside(_, _)
Outside(s, p) ==
    IF p > Len(s) THEN <<>>
    ELSE IF \/ s[p] \in LiteralTokens
            \/ InSummarySpan(read_text(s), p)
            \/ InReviewSpan(read_text(s), p)
         THEN Outside(s, p + 1)
         ELSE <<s[p]>> \o Outside(s, p + 1)

\* the tokens of a from the k-th on are in b from position p on, in their
\* order
RECURSIVE Embeds(_, _, _, _)
Embeds(a, b, k, p) ==
    IF k > Len(a) THEN TRUE
    ELSE LET hits == {j \in p..Len(b) : b[j] = a[k]}
         IN  IF hits = {} THEN FALSE
             ELSE Embeds(a, b, k + 1, Min(hits) + 1)

IsSubsequence(a, b) == Embeds(a, b, 1, 1)

\* the review section as the document holds it once it is inserted
InsertedReview ==
    ReviewText(output_file.doc.review) \o <<"\n", "---", "\n", "\n">>

\* C14: generate_proof_file changes only the placeholders, the span from the
\* summary header through the line of the Deliverables cell, and the span
\* from the review header up to the Integration Status header: every token
\* of the template outside them is in the document, in order, and the
\* Integration Status header follows the review section inserted.
C14_Frame ==
    DocumentWritten =>
        /\ IsSubsequence(Outside(files.template, 1), output_file.doc.text)
        /\ \A i \in 1..Len(output_file.doc.text) :
              (/\ output_file.doc.text[i] = ReviewHeader
               /\ i + Len(InsertedReview) - 1 <= Len(output_file.doc.text)
               /\ SubSeq(output_file.doc.text, i, i + Len(InsertedReview) - 1)
                     = InsertedReview) =>
                  /\ i + Len(InsertedReview) <= Len(output_file.doc.text)
                  /\ output_file.doc.text[i + Len(InsertedReview)] = Sentinel

\* the placeholders generate_stage_summary puts in the table for a metric
\* that is absent, and in the Deliverables row ("[PASS/FAIL]" is the
\* source's "[<check>/<cross>]")
ComposerPlaceholders == {"[N/N]", "[XX%]", "[STATUS]", "[N]", "[PASS/FAIL]"}

\* the placeholders of the summary composer the document holds
Remaining ==
    {output_file.doc.text[i] : i \in 1..Len(output_file.doc.text)}
        \cap ComposerPlaceholders

\* C15: once verify_proof_file has run on the written document, every
\* placeholder of the summary composer that the document still holds is
\* among the placeholders reported, and the file is not reported complete.
C15_ReportsPlaceholders ==
    reported.printed =>
        \A tok \in Remaining :
            /\ tok \in reported.names
            /\ reported.count > 0

\* the tokens of a text
Tokens(s) == {s[i] : i \in 1..Len(s)}

\* the template once read, with the placeholders replaced; with the summary
\* table inserted as well; and with the review section inserted as well
AfterLiterals == Substituted(TemplateLines)
AfterSummary == InsertSummaryTable(AfterLiterals, generate_stage_summary)
AfterReview == InsertEngineerReview(AfterSummary,
                                    generate_engineer_review_prompts)

\* C16: generate_proof_file takes its steps in a fixed order: when the
\* summary table is about to be inserted the text is the template with the
\* placeholders replaced, when the review section is about to be inserted
\* the summary table is in as well, what is written is the text after the
\* three steps, and nothing is written before.  No later step matches inside
\* what an earlier step inserted: no later placeholder is in the value of an
\* earlier one, the summary pattern matches in no value, and the review
\* pattern does not match in the summary table.
C16_FixedOrder ==
    /\ pc = "summary" => template = AfterLiterals
    /\ pc = "review" => template = AfterSummary
    /\ pc = "write" => template = AfterReview
    /\ pc \in {"generate", "summary", "review", "write"} => output_file = NoFile
    /\ DocumentWritten =>
          (pc \in {"verify", "done"} /\ output_file.doc.text = AfterReview)
    /\ \A k \in 1..Len(Replacements), j \in 1..Len(Replacements) :
          k < j => Replacements[j].old \notin Tokens(Replacements[k].new)
    /\ \A k \in 1..Len(Replacements) :
          ~SummaryPatternMatches(Replacements[k].new)
    /\ ~ReviewPatternMatches(SummaryText(generate_stage_summary) \o <<"\n">>)

\* a document written for a template with a placeholder, the summary table
\* and the review section, every step having replaced something
C16_Witness ==
    /\ DocumentWritten
    /\ pc = "done"
    /\ Tokens(files.template) \cap LiteralTokens # {}
    /\ SummaryPatternMatches(TemplateLines)
    /\ ReviewPatternMatches(AfterSummary)
    /\ AfterLiterals # TemplateLines
    /\ AfterSummary # AfterLiterals
    /\ AfterReview # AfterSummary

-----------------------------------------------------------------------------
(* The summary table and the review section of one run.                    *)

\* C17: in the document of a run the Code Coverage row's status is PASS if
\* and only if the review's observation line says the 90% target is
\* exceeded; when coverage is absent the row shows the placeholder status
\* and the line shows "?%" with the below-target verdict.
C17_VerdictsAgree ==
    DocumentWritten =>
        /\ output_file.doc.summary.coverage_status = <<PASS>> <=>
              output_file.doc.review.verdict = "Exceeds 90% target"
        /\ extract_coverage = None =>
              /\ output_file.doc.summary.coverage_status = <<"[STATUS]">>
              /\ output_file.doc.review.coverage_pct = <<"?%">>
              /\ output_file.doc.review.verdict = "Below 90% target"

\* the document of a run whose coverage is the target itself
C17_Witness ==
    /\ DocumentWritten
    /\ pc = "done"
    /\ extract_coverage = Str(<<"9", "0">>)
    /\ output_file.doc.summary.coverage_status = <<PASS>>
    /\ output_file.doc.review.verdict = "Exceeds 90% target"

====
